---- MODULE Spec2Model ----
(***************************************************************************)
(* Model of mcp-wrapper.py: a supervisor that spawns a child process, two  *)
(* daemon forwarder threads (sys.stdin -> process.stdin unfiltered,        *)
(* process.stdout -> sys.stdout filtered by filter_logs), and the exit     *)
(* status propagation of main().                                           *)
(*                                                                         *)
(* A byte or a character is a string atom: a printable ASCII character is  *)
(* the one-character string, the others are the named atoms below.  A line *)
(* is a sequence of such atoms.                                            *)
(***************************************************************************)
EXTENDS Integers, Sequences, FiniteSets, TLC

\* ------------------------------------------------------------------------
\* Bytes and characters
\* ------------------------------------------------------------------------
LF == "LF"
CR == "CR"
TAB == "TAB"
FF == "FF"
SP == " "
DQ == "DQ"
BSL == "BSL"
\* bytes >= 0x80: C2 A0 is the UTF-8 encoding of U+00A0, every other
\* arrangement of them is malformed
xC2 == "xC2"
xA0 == "xA0"
xFF == "xFF"
NBSP == "NBSP"

HighBytes == {xC2, xA0, xFF}

\* bytes.decode('utf-8', errors='ignore'): a well-formed sequence becomes its
\* character, a malformed byte is dropped, ASCII is unchanged.
RECURSIVE decode(_)
decode(b) ==
  IF b = <<>> THEN <<>>
  ELSE IF Head(b) = xC2 /\ Len(b) >= 2 /\ b[2] = xA0
       THEN <<NBSP>> \o decode(SubSeq(b, 3, Len(b)))
  ELSE IF Head(b) \in HighBytes THEN decode(Tail(b))
  ELSE <<Head(b)>> \o decode(Tail(b))

\* str.encode('utf-8'), the inverse direction (used only by a variant of WriteArg)
RECURSIVE encode(_)
encode(s) ==
  IF s = <<>> THEN <<>>
  ELSE IF Head(s) = NBSP THEN <<xC2, xA0>> \o encode(Tail(s))
  ELSE <<Head(s)>> \o encode(Tail(s))

\* ------------------------------------------------------------------------
\* json.loads on a str: success or failure only (the value is discarded)
\* ------------------------------------------------------------------------
JsonWs == {SP, TAB, LF, CR}
Digits == {"0", "1", "2", "3", "4", "5", "6", "7", "8", "9"}
\* characters a JSON string may not contain unescaped (strict mode)
ControlChars == {LF, CR, TAB, FF}
SimpleEscapes == {DQ, BSL, "/", "b", "f", "n", "r", "t"}

\* s has the characters of lit starting at position i
HasAt(s, i, lit) ==
  /\ i + Len(lit) - 1 <= Len(s)
  /\ \A k \in 1..Len(lit) : s[i + k - 1] = lit[k]

RECURSIVE SkipWs(_, _)
SkipWs(s, i) ==
  IF i <= Len(s) /\ s[i] \in JsonWs THEN SkipWs(s, i + 1) ELSE i

RECURSIVE SkipDigits(_, _)
SkipDigits(s, i) ==
  IF i <= Len(s) /\ s[i] \in Digits THEN SkipDigits(s, i + 1) ELSE i

\* Each Scan operator returns the position after the item starting at i, or
\* 0 when there is no such item there.

\* i is just after the opening quote
RECURSIVE ScanString(_, _)
ScanString(s, i) ==
  IF i > Len(s) THEN 0
  ELSE IF s[i] = DQ THEN i + 1
  ELSE IF s[i] \in ControlChars THEN 0
  ELSE IF s[i] = BSL
       THEN IF i + 1 <= Len(s) /\ s[i + 1] \in SimpleEscapes
            THEN ScanString(s, i + 2) ELSE 0
  ELSE ScanString(s, i + 1)

\* (-?(?:0|[1-9]\d*))(\.\d+)?([eE][-+]?\d+)?
ScanNumber(s, i) ==
  LET j == IF i <= Len(s) /\ s[i] = "-" THEN i + 1 ELSE i
      intEnd == IF j > Len(s) \/ s[j] \notin Digits THEN 0
                ELSE IF s[j] = "0" THEN j + 1
                ELSE SkipDigits(s, j)
      fracEnd == IF intEnd # 0 /\ intEnd + 1 <= Len(s) /\ s[intEnd] = "."
                    /\ s[intEnd + 1] \in Digits
                 THEN SkipDigits(s, intEnd + 1) ELSE intEnd
      expDigits == IF fracEnd # 0 /\ fracEnd + 1 <= Len(s)
                      /\ s[fracEnd] \in {"e", "E"}
                   THEN IF s[fracEnd + 1] \in {"+", "-"}
                        THEN fracEnd + 2 ELSE fracEnd + 1
                   ELSE 0
  IN IF expDigits # 0 /\ expDigits <= Len(s) /\ s[expDigits] \in Digits
     THEN SkipDigits(s, expDigits) ELSE fracEnd

RECURSIVE ScanValue(_, _)
RECURSIVE ScanMembers(_, _)
RECURSIVE ScanElements(_, _)

\* i is at the opening quote of a key; returns the position after "}"
ScanMembers(s, i) ==
  IF i > Len(s) \/ s[i] # DQ THEN 0
  ELSE LET k == ScanString(s, i + 1)
           c == SkipWs(s, k)
       IN IF k = 0 \/ c > Len(s) \/ s[c] # ":" THEN 0
          ELSE LET v == ScanValue(s, SkipWs(s, c + 1))
                   n == SkipWs(s, v)
               IN IF v = 0 \/ n > Len(s) THEN 0
                  ELSE IF s[n] = "}" THEN n + 1
                  ELSE IF s[n] = "," THEN ScanMembers(s, SkipWs(s, n + 1))
                  ELSE 0

\* i is at the first character of an element; returns the position after "]"
ScanElements(s, i) ==
  LET v == ScanValue(s, i)
      n == SkipWs(s, v)
  IN IF v = 0 \/ n > Len(s) THEN 0
     ELSE IF s[n] = "]" THEN n + 1
     ELSE IF s[n] = "," THEN ScanElements(s, SkipWs(s, n + 1))
     ELSE 0

ScanValue(s, i) ==
  IF i > Len(s) THEN 0
  ELSE IF s[i] = DQ THEN ScanString(s, i + 1)
  ELSE IF s[i] = "{"
       THEN LET j == SkipWs(s, i + 1)
            IN IF j <= Len(s) /\ s[j] = "}" THEN j + 1 ELSE ScanMembers(s, j)
  ELSE IF s[i] = "["
       THEN LET j == SkipWs(s, i + 1)
            IN IF j <= Len(s) /\ s[j] = "]" THEN j + 1 ELSE ScanElements(s, j)
  ELSE IF HasAt(s, i, <<"n", "u", "l", "l">>) THEN i + 4
  ELSE IF HasAt(s, i, <<"t", "r", "u", "e">>) THEN i + 4
  ELSE IF HasAt(s, i, <<"f", "a", "l", "s", "e">>) THEN i + 5
  ELSE IF ScanNumber(s, i) # 0 THEN ScanNumber(s, i)
  ELSE IF HasAt(s, i, <<"N", "a", "N">>) THEN i + 3
  ELSE IF HasAt(s, i, <<"I", "n", "f", "i", "n", "i", "t", "y">>) THEN i + 8
  ELSE IF HasAt(s, i, <<"-", "I", "n", "f", "i", "n", "i", "t", "y">>) THEN i + 9
  ELSE 0

\* TRUE iff json.loads(s) returns, FALSE iff it raises
json_loads(s) ==
  LET e == ScanValue(s, SkipWs(s, 1))
  IN e # 0 /\ SkipWs(s, e) = Len(s) + 1

\* ------------------------------------------------------------------------
\* filter_logs
\* ------------------------------------------------------------------------
\* str.strip() with no argument removes Unicode whitespace
StripWs == {SP, TAB, LF, CR, FF, NBSP}

RECURSIVE lstrip(_)
lstrip(s) ==
  IF s # <<>> /\ Head(s) \in StripWs THEN lstrip(Tail(s)) ELSE s

RECURSIVE rstrip(_)
rstrip(s) ==
  IF s # <<>> /\ s[Len(s)] \in StripWs
  THEN rstrip(SubSeq(s, 1, Len(s) - 1)) ELSE s

strip(s) == rstrip(lstrip(s))

startswith(s, prefix) == HasAt(s, 1, prefix)

\* the prefix list with its last entry lost
LogPrefixes_without_crit ==
  { <<"i", "n", "f", "o", ":">>,
    <<"w", "a", "r", "n", ":">>,
    <<"e", "r", "r", "o", "r", ":">>,
    <<"d", "b", "u", "g", ":">>,
    <<"f", "a", "i", "l", ":">> }

LogPrefixes ==
  { <<"i", "n", "f", "o", ":">>,
    <<"w", "a", "r", "n", ":">>,
    <<"e", "r", "r", "o", "r", ":">>,
    <<"d", "b", "u", "g", ":">>,
    <<"f", "a", "i", "l", ":">>,
    <<"c", "r", "i", "t", ":">> }

\* variants of filter_logs with one slip each
filter_logs_inverted(line) ==
  IF json_loads(line) THEN FALSE
  ELSE IF strip(line) # <<>> /\ ~(\E prefix \in LogPrefixes : startswith(line, prefix))
       THEN FALSE
  ELSE TRUE

filter_logs_no_strip(line) ==
  IF json_loads(line) THEN TRUE
  ELSE IF line # <<>> /\ ~(\E prefix \in LogPrefixes : startswith(line, prefix))
       THEN TRUE
  ELSE FALSE

filter_logs_prefix_anywhere(line) ==
  IF json_loads(line) THEN TRUE
  ELSE IF strip(line) # <<>>
          /\ ~(\E prefix \in LogPrefixes : \E i \in 1..Len(line) : HasAt(line, i, prefix))
       THEN TRUE
  ELSE FALSE

filter_logs_strip_spaces(line) ==
  LET RECURSIVE unspace(_)
      unspace(x) == IF x # <<>> /\ Head(x) = SP THEN unspace(Tail(x)) ELSE x
  IN IF json_loads(line) THEN TRUE
     ELSE IF unspace(line) # <<>>
             /\ ~(\E prefix \in LogPrefixes : startswith(line, prefix))
          THEN TRUE
     ELSE FALSE

filter_logs(line) ==
  IF json_loads(line) THEN TRUE
  ELSE IF strip(line) # <<>> /\ ~(\E prefix \in LogPrefixes : startswith(line, prefix))
       THEN TRUE
  ELSE FALSE

\* ------------------------------------------------------------------------
\* Bounds and sample data of the environment (caller and child)
\* ------------------------------------------------------------------------
MaxCallerWrites == 1
MaxChildWrites == 1
MaxErrWrites == 1

JsonLine == <<"{", "}", LF>>
LogLine == <<"i", "n", "f", "o", ":", "x", LF>>
BlankLine == <<SP, LF>>
RawLine == <<xFF, "x", LF>>
Unterminated == <<"x">>

\* what the child may write to its standard output or standard error
ChildChunks == {JsonLine, LogLine \o RawLine, BlankLine \o Unterminated}
\* what the caller may write to the program's standard input
CallerChunks == {LogLine, <<LF>> \o LogLine \o Unterminated}

\* stderr=subprocess.STDOUT instead: the child's stderr shares the stdout pipe
StderrTarget_stdout_pipe == "process.stdout"

\* where the child's standard error goes: stderr=subprocess.DEVNULL
StderrTarget == "devnull"

ExitCodes == {0, 3}
Signals == {9}

\* environment variables: the two keys main() sets and one it does not
LogLevelKey == "Logging__Console__LogLevel__Default"
ModeKey == "DOTNET_ENVIRONMENT"
EnvKeys == {LogLevelKey, ModeKey, "PATH"}
Unset == "unset"
EnvValues == {Unset, "None", "Production", "Debug"}
Environs == [EnvKeys -> EnvValues]
\* the caller's environment in the runs of the whole program
CallerEnviron ==
  [k \in EnvKeys |-> IF k = LogLevelKey THEN "Debug"
                     ELSE IF k = ModeKey THEN Unset ELSE "Production"]

\* ------------------------------------------------------------------------
\* State
\* ------------------------------------------------------------------------
Threads == {"stdin_thread", "stdout_thread"}
Sources == {"process.stdout", "sys.stdin"}
Dests == {"process.stdin", "sys.stdout"}

VARIABLES
  pc,            \* position of main()
  child,         \* "none", "running", "terminated"
  childStatus,   \* how the child terminated
  returncode,    \* process.returncode
  progStatus,    \* the program's own termination status
  spawnAttempts, \* number of Popen calls made
  environ,       \* os.environ
  env,           \* local variable env of main()
  childEnv,      \* the environment the child was started with
  closed,        \* per writable stream: the program has closed it
  source,        \* per readable stream: bytes written to it and not yet read
  eof,           \* per readable stream: its write end is closed
  wbuf,          \* per writable stream: bytes held by its BufferedWriter
  delivered,     \* per writable stream: bytes handed to its file descriptor
  broken,        \* per writable stream: its read end is closed
  args,          \* per thread: (input_stream, output_stream, should_filter)
  fpc,           \* per thread: position in forward_stream
  line,          \* per thread: local variable line (bytes)
  line_str,      \* per thread: local variable line_str (characters)
  readLog,       \* per thread: the lines readline returned, in order
  writeLog,      \* per thread: the lines passed to write, in order
  verdicts,      \* per thread: what each call of filter_logs returned, in order
  sent,          \* per readable stream: every byte ever written to it
  nCallerWrites,
  nChildWrites,
  nErrWrites

vars == <<pc, child, childStatus, returncode, progStatus, spawnAttempts,
          environ, env, childEnv, closed,
          source, eof, wbuf, delivered, broken, args, fpc, line, line_str,
          readLog, writeLog, verdicts, sent,
          nCallerWrites, nChildWrites, nErrWrites>>

envVars == <<environ, env, childEnv>>
mainVars == <<pc, returncode, progStatus, spawnAttempts, args, envVars, closed>>
childVars == <<child, childStatus>>
threadVars == <<fpc, line, line_str, readLog, writeLog, verdicts>>
envCounters == <<nCallerWrites, nChildWrites, nErrWrites>>

NoStatus == [n |-> 0, kind |-> "none"]
NoArgs == [input_stream |-> "none", output_stream |-> "none", should_filter |-> FALSE]

NoEnv == [k \in EnvKeys |-> Unset]

\* the state main() starts in, whatever the caller's environment
InitRest ==
  /\ pc = "environ"
  /\ env = NoEnv
  /\ childEnv = NoEnv
  /\ closed = [d \in Dests |-> FALSE]
  /\ child = "none"
  /\ childStatus = NoStatus
  /\ returncode = 0
  /\ progStatus = NoStatus
  /\ spawnAttempts = 0
  /\ source = [s \in Sources |-> <<>>]
  /\ eof = [s \in Sources |-> FALSE]
  /\ wbuf = [d \in Dests |-> <<>>]
  /\ delivered = [d \in Dests |-> <<>>]
  /\ broken = [d \in Dests |-> FALSE]
  /\ args = [t \in Threads |-> NoArgs]
  /\ fpc = [t \in Threads |-> "unstarted"]
  /\ line = [t \in Threads |-> <<>>]
  /\ line_str = [t \in Threads |-> <<>>]
  /\ readLog = [t \in Threads |-> <<>>]
  /\ writeLog = [t \in Threads |-> <<>>]
  /\ verdicts = [t \in Threads |-> <<>>]
  /\ sent = [s \in Sources |-> <<>>]
  /\ nCallerWrites = 0
  /\ nChildWrites = 0
  /\ nErrWrites = 0

Init == environ = CallerEnviron /\ InitRest

\* ------------------------------------------------------------------------
\* main()
\* ------------------------------------------------------------------------
\* env = os.environ with no copy: the two assignments land in os.environ
BuildEnv_no_copy ==
  /\ pc = "environ"
  /\ environ' = [environ EXCEPT ![LogLevelKey] = "None", ![ModeKey] = "Production"]
  /\ env' = environ'
  /\ pc' = "popen"
  /\ UNCHANGED <<childVars, returncode, progStatus, spawnAttempts, args,
                 childEnv, closed, source, eof, wbuf, delivered, broken,
                 threadVars, sent, envCounters>>

\* env = os.environ.copy(); env[...] = 'None'; env[...] = 'Production'
BuildEnv ==
  /\ pc = "environ"
  /\ env' = [[k \in EnvKeys |-> environ[k]]
               EXCEPT ![LogLevelKey] = "None", ![ModeKey] = "Production"]
  /\ pc' = "popen"
  /\ UNCHANGED <<childVars, returncode, progStatus, spawnAttempts, args,
                 environ, childEnv, closed, source, eof, wbuf, delivered, broken,
                 threadVars, sent, envCounters>>

\* subprocess.Popen(...) returns: the child runs, its stdin and stdout are
\* pipes, its stderr is DEVNULL
Popen ==
  /\ pc = "popen"
  /\ spawnAttempts' = spawnAttempts + 1
  /\ child' = "running"
  /\ childEnv' = env
  /\ pc' = "start_stdin"
  /\ UNCHANGED <<childStatus, returncode, progStatus, args, environ, env, closed,
                 source, eof, wbuf, delivered, broken, threadVars, sent,
                 envCounters>>

\* the failed spawn swallowed and turned into a normal exit
PopenFails_exit_zero ==
  /\ pc = "popen"
  /\ spawnAttempts' = spawnAttempts + 1
  /\ progStatus' = [n |-> 0, kind |-> "exit"]
  /\ pc' = "exited"
  /\ UNCHANGED <<childVars, returncode, args, envVars, closed, source, eof,
                 wbuf, delivered, broken, threadVars, sent, envCounters>>

\* subprocess.Popen(...) raises (FileNotFoundError, PermissionError): nothing
\* catches it, the interpreter prints the traceback on stderr and exits 1
PopenFails ==
  /\ pc = "popen"
  /\ spawnAttempts' = spawnAttempts + 1
  /\ progStatus' = [n |-> 1, kind |-> "exit"]
  /\ pc' = "exited"
  /\ UNCHANGED <<childVars, returncode, args, envVars, closed, source, eof,
                 wbuf, delivered, broken, threadVars, sent, envCounters>>

\* the Thread object made, start() never called
StartStdinThread_not_started ==
  /\ pc = "start_stdin"
  /\ args' = [args EXCEPT !["stdin_thread"] =
                [input_stream |-> "sys.stdin", output_stream |-> "process.stdin",
                 should_filter |-> FALSE]]
  /\ pc' = "start_stdout"
  /\ UNCHANGED <<childVars, returncode, progStatus, spawnAttempts, envVars,
                 closed, source, eof, wbuf, delivered, broken, threadVars,
                 sent, envCounters>>

StartStdinThread ==
  /\ pc = "start_stdin"
  /\ args' = [args EXCEPT !["stdin_thread"] =
                [input_stream |-> "sys.stdin", output_stream |-> "process.stdin",
                 should_filter |-> FALSE]]
  /\ fpc' = [fpc EXCEPT !["stdin_thread"] = "readline"]
  /\ pc' = "start_stdout"
  /\ UNCHANGED <<childVars, returncode, progStatus, spawnAttempts, envVars,
                 closed, source, eof, wbuf, delivered, broken, line, line_str,
                 readLog, writeLog, verdicts, sent, envCounters>>

\* the output thread given process.stdin as its destination
StartStdoutThread_shared_dest ==
  /\ pc = "start_stdout"
  /\ args' = [args EXCEPT !["stdout_thread"] =
                [input_stream |-> "process.stdout", output_stream |-> "process.stdin",
                 should_filter |-> TRUE]]
  /\ fpc' = [fpc EXCEPT !["stdout_thread"] = "readline"]
  /\ pc' = "wait"
  /\ UNCHANGED <<childVars, returncode, progStatus, spawnAttempts, envVars,
                 closed, source, eof, wbuf, delivered, broken, line, line_str,
                 readLog, writeLog, verdicts, sent, envCounters>>

StartStdoutThread ==
  /\ pc = "start_stdout"
  /\ args' = [args EXCEPT !["stdout_thread"] =
                [input_stream |-> "process.stdout", output_stream |-> "sys.stdout",
                 should_filter |-> TRUE]]
  /\ fpc' = [fpc EXCEPT !["stdout_thread"] = "readline"]
  /\ pc' = "wait"
  /\ UNCHANGED <<childVars, returncode, progStatus, spawnAttempts, envVars,
                 closed, source, eof, wbuf, delivered, broken, line, line_str,
                 readLog, writeLog, verdicts, sent, envCounters>>

\* Popen.returncode: the exit code, or -N for a child killed by signal N
ReturnCodeOf(st) == IF st.kind = "signal" THEN 0 - st.n ELSE st.n

\* process.wait() returns once the child has terminated
Wait ==
  /\ pc = "wait"
  /\ child = "terminated"
  /\ returncode' = ReturnCodeOf(childStatus)
  /\ pc' = "exit"
  /\ UNCHANGED <<childVars, progStatus, spawnAttempts, args, envVars, closed,
                 source, eof, wbuf, delivered, broken, threadVars, sent,
                 envCounters>>

\* the status a process gets from exit(n): the low 8 bits of n
ExitStatusOf(n) == [n |-> n % 256, kind |-> "exit"]

\* threads that are not daemons: the interpreter waits for them before it exits
Exit_waits_for_threads ==
  /\ pc = "exit"
  /\ \A t \in Threads : fpc[t] \in {"done", "crashed"}
  /\ progStatus' = ExitStatusOf(returncode)
  /\ delivered' = [delivered EXCEPT !["sys.stdout"] = @ \o wbuf["sys.stdout"]]
  /\ wbuf' = [wbuf EXCEPT !["sys.stdout"] = <<>>]
  /\ pc' = "exited"
  /\ UNCHANGED <<childVars, returncode, spawnAttempts, args, envVars, closed,
                 source, eof, broken, threadVars, sent, envCounters>>

\* sys.exit(process.returncode): the interpreter finalizes (flushing
\* sys.stdout), the daemon threads are abandoned where they are
Exit ==
  /\ pc = "exit"
  /\ progStatus' = ExitStatusOf(returncode)
  /\ delivered' = [delivered EXCEPT !["sys.stdout"] = @ \o wbuf["sys.stdout"]]
  /\ wbuf' = [wbuf EXCEPT !["sys.stdout"] = <<>>]
  /\ pc' = "exited"
  /\ UNCHANGED <<childVars, returncode, spawnAttempts, args, envVars, closed,
                 source, eof, broken, threadVars, sent, envCounters>>

\* ------------------------------------------------------------------------
\* forward_stream(input_stream, output_stream, should_filter), run by thread t
\* ------------------------------------------------------------------------
\* position of the first LF of b, 0 if there is none
RECURSIVE FirstLF(_, _)
FirstLF(b, i) ==
  IF i > Len(b) THEN 0 ELSE IF b[i] = LF THEN i ELSE FirstLF(b, i + 1)

\* a thread runs only while the interpreter lives
Running(t) == pc # "exited" /\ fpc[t] \notin {"unstarted", "done", "crashed"}

\* should_filter ignored: every line goes through the classifier
AfterDecode_always_filter(t) == "filter"

\* where the loop body goes after line_str is computed
AfterDecode(t) == IF args[t].should_filter THEN "filter" ELSE "write"

\* input_stream.readline() returns a line: through the first LF, or the
\* unterminated rest once the write end is closed; then
\* line_str = line.decode('utf-8', errors='ignore')
ReadLine(t) ==
  LET in == args[t].input_stream
      n == FirstLF(source[in], 1)
      k == IF n # 0 THEN n ELSE Len(source[in])
  IN /\ Running(t)
     /\ fpc[t] = "readline"
     /\ n # 0 \/ (eof[in] /\ source[in] # <<>>)
     /\ line' = [line EXCEPT ![t] = SubSeq(source[in], 1, k)]
     /\ line_str' = [line_str EXCEPT ![t] = decode(SubSeq(source[in], 1, k))]
     /\ source' = [source EXCEPT ![in] = SubSeq(@, k + 1, Len(@))]
     /\ readLog' = [readLog EXCEPT ![t] = Append(@, SubSeq(source[in], 1, k))]
     /\ fpc' = [fpc EXCEPT ![t] = AfterDecode(t)]
     /\ UNCHANGED <<mainVars, childVars, eof, wbuf, delivered, broken,
                    writeLog, verdicts, sent, envCounters>>

\* the empty read not taken as the end: readline is called again
ReadEof_retry(t) ==
  LET in == args[t].input_stream
  IN /\ Running(t)
     /\ fpc[t] = "readline"
     /\ eof[in] /\ source[in] = <<>>
     /\ line' = [line EXCEPT ![t] = <<>>]
     /\ UNCHANGED <<mainVars, childVars, source, eof, wbuf, delivered, broken,
                    fpc, line_str, readLog, writeLog, verdicts, sent,
                    envCounters>>

\* output_stream.close() once the loop has ended
ReadEof_closes_output(t) ==
  LET in == args[t].input_stream
  IN /\ Running(t)
     /\ fpc[t] = "readline"
     /\ eof[in] /\ source[in] = <<>>
     /\ line' = [line EXCEPT ![t] = <<>>]
     /\ fpc' = [fpc EXCEPT ![t] = "done"]
     /\ closed' = [closed EXCEPT ![args[t].output_stream] = TRUE]
     /\ UNCHANGED <<pc, returncode, progStatus, spawnAttempts, args, envVars,
                    childVars, source, eof, wbuf, delivered, broken,
                    line_str, readLog, writeLog, verdicts, sent, envCounters>>

\* input_stream.readline() returns b'': the iterator stops, the function returns
ReadEof(t) ==
  LET in == args[t].input_stream
  IN /\ Running(t)
     /\ fpc[t] = "readline"
     /\ eof[in] /\ source[in] = <<>>
     /\ line' = [line EXCEPT ![t] = <<>>]
     /\ fpc' = [fpc EXCEPT ![t] = "done"]
     /\ UNCHANGED <<mainVars, childVars, source, eof, wbuf, delivered, broken,
                    line_str, readLog, writeLog, verdicts, sent,
                    envCounters>>

\* if filter_logs(line_str):
Filter(t) ==
  /\ Running(t)
  /\ fpc[t] = "filter"
  /\ verdicts' = [verdicts EXCEPT ![t] = Append(@, filter_logs(line_str[t]))]
  /\ fpc' = [fpc EXCEPT ![t] = IF filter_logs(line_str[t]) THEN "write" ELSE "readline"]
  /\ UNCHANGED <<mainVars, childVars, source, eof, wbuf, delivered, broken,
                 line, line_str, readLog, writeLog, sent, envCounters>>

\* the decoded text written back instead of the bytes read
WriteArg_reencoded(t) == encode(line_str[t])

\* the bytes forward_stream passes to output_stream.write
WriteArg(t) == line[t]

\* write with the flush left out
Write_no_flush(t) ==
  LET out == args[t].output_stream
  IN /\ Running(t)
     /\ fpc[t] = "write"
     /\ wbuf' = [wbuf EXCEPT ![out] = @ \o WriteArg(t)]
     /\ writeLog' = [writeLog EXCEPT ![t] = Append(@, WriteArg(t))]
     /\ fpc' = [fpc EXCEPT ![t] = "readline"]
     /\ UNCHANGED <<mainVars, childVars, source, eof, delivered, broken, line,
                    line_str, readLog, verdicts, sent, envCounters>>

\* output_stream.write(line)
Write(t) ==
  LET out == args[t].output_stream
  IN /\ Running(t)
     /\ fpc[t] = "write"
     /\ wbuf' = [wbuf EXCEPT ![out] = @ \o WriteArg(t)]
     /\ writeLog' = [writeLog EXCEPT ![t] = Append(@, WriteArg(t))]
     /\ fpc' = [fpc EXCEPT ![t] = "flush"]
     /\ UNCHANGED <<mainVars, childVars, source, eof, delivered, broken, line,
                    line_str, readLog, verdicts, sent, envCounters>>

\* output_stream.flush() succeeds
Flush(t) ==
  LET out == args[t].output_stream
  IN /\ Running(t)
     /\ fpc[t] = "flush"
     /\ ~broken[out]
     /\ delivered' = [delivered EXCEPT ![out] = @ \o wbuf[out]]
     /\ wbuf' = [wbuf EXCEPT ![out] = <<>>]
     /\ fpc' = [fpc EXCEPT ![t] = "readline"]
     /\ UNCHANGED <<mainVars, childVars, source, eof, broken, line, line_str,
                    readLog, writeLog, verdicts, sent, envCounters>>

\* output_stream.flush() raises BrokenPipeError: nothing in forward_stream
\* catches it, the thread ends with the exception
FlushFails(t) ==
  LET out == args[t].output_stream
  IN /\ Running(t)
     /\ fpc[t] = "flush"
     /\ broken[out]
     /\ fpc' = [fpc EXCEPT ![t] = "crashed"]
     /\ UNCHANGED <<mainVars, childVars, source, eof, wbuf, delivered, broken,
                    line, line_str, readLog, writeLog, verdicts, sent, envCounters>>

forward_stream(t) ==
  \/ ReadLine(t)
  \/ ReadEof(t)
  \/ Filter(t)
  \/ Write(t)
  \/ Flush(t)
  \/ FlushFails(t)

\* ------------------------------------------------------------------------
\* The environment: the caller and the child process
\* ------------------------------------------------------------------------
\* (bytes written before the program started wait in the pipe: the caller's
\* writes are taken from the moment the child is spawned)
CallerWrites(chunk) ==
  /\ pc \notin {"environ", "popen", "exited"}
  /\ ~eof["sys.stdin"]
  /\ nCallerWrites < MaxCallerWrites
  /\ nCallerWrites' = nCallerWrites + 1
  /\ source' = [source EXCEPT !["sys.stdin"] = @ \o chunk]
  /\ sent' = [sent EXCEPT !["sys.stdin"] = @ \o chunk]
  /\ UNCHANGED <<mainVars, childVars, eof, wbuf, delivered, broken, threadVars,
                 nChildWrites, nErrWrites>>

CallerCloses ==
  /\ pc \notin {"environ", "popen", "exited"}
  /\ ~eof["sys.stdin"]
  /\ eof' = [eof EXCEPT !["sys.stdin"] = TRUE]
  /\ UNCHANGED <<mainVars, childVars, source, wbuf, delivered, broken,
                 threadVars, sent, envCounters>>

\* the child writes to its stdout, the pipe process.stdout reads
ChildWritesStdout(chunk) ==
  /\ child = "running"
  /\ nChildWrites < MaxChildWrites
  /\ nChildWrites' = nChildWrites + 1
  /\ source' = [source EXCEPT !["process.stdout"] = @ \o chunk]
  /\ sent' = [sent EXCEPT !["process.stdout"] = @ \o chunk]
  /\ UNCHANGED <<mainVars, childVars, eof, wbuf, delivered, broken, threadVars,
                 nCallerWrites, nErrWrites>>

\* the child writes to its stderr, which is subprocess.DEVNULL: the bytes
\* reach no stream of the program
ChildWritesStderr(chunk) ==
  /\ child = "running"
  /\ nErrWrites < MaxErrWrites
  /\ nErrWrites' = nErrWrites + 1
  /\ source' = IF StderrTarget = "devnull" THEN source
               ELSE [source EXCEPT ![StderrTarget] = @ \o chunk]
  /\ UNCHANGED <<mainVars, childVars, eof, wbuf, delivered, broken,
                 threadVars, sent, nCallerWrites, nChildWrites>>

\* the child closes its stdin and keeps running
ChildClosesStdin ==
  /\ child = "running"
  /\ ~broken["process.stdin"]
  /\ broken' = [broken EXCEPT !["process.stdin"] = TRUE]
  /\ UNCHANGED <<mainVars, childVars, source, eof, wbuf, delivered, threadVars,
                 sent, envCounters>>

\* the child terminates: both its pipe ends close
ChildTerminates(st) ==
  /\ child = "running"
  /\ child' = "terminated"
  /\ childStatus' = st
  /\ eof' = [eof EXCEPT !["process.stdout"] = TRUE]
  /\ broken' = [broken EXCEPT !["process.stdin"] = TRUE]
  /\ UNCHANGED <<mainVars, source, wbuf, delivered, threadVars, sent,
                 envCounters>>

ChildExits == \E c \in ExitCodes : ChildTerminates([n |-> c, kind |-> "exit"])

ChildKilled == \E sig \in Signals : ChildTerminates([n |-> sig, kind |-> "signal"])

Environment ==
  \/ \E chunk \in CallerChunks : CallerWrites(chunk)
  \/ CallerCloses
  \/ \E chunk \in ChildChunks : ChildWritesStdout(chunk)
  \/ \E chunk \in ChildChunks : ChildWritesStderr(chunk)
  \/ ChildClosesStdin
  \/ ChildExits
  \/ ChildKilled

main ==
  \/ BuildEnv
  \/ Popen
  \/ PopenFails
  \/ StartStdinThread
  \/ StartStdoutThread
  \/ Wait
  \/ Exit

Next ==
  \/ main
  \/ \E t \in Threads : forward_stream(t)
  \/ Environment

Spec == Init /\ [][Next]_vars

\* the program with the main thread kept being scheduled: the forwarders, the
\* caller and the child are free to stay idle (the child's writes to its
\* discarded stderr are left out, they reach no stream of the program)
EnvironmentLive ==
  \/ \E chunk \in CallerChunks : CallerWrites(chunk)
  \/ CallerCloses
  \/ \E chunk \in ChildChunks : ChildWritesStdout(chunk)
  \/ ChildClosesStdin
  \/ ChildExits
  \/ ChildKilled

NextLive ==
  \/ main
  \/ \E t \in Threads : forward_stream(t)
  \/ EnvironmentLive

SpecLive ==
  /\ Init
  /\ [][NextLive]_vars
  /\ WF_vars(main)

\* ------------------------------------------------------------------------
\* The construction of the child's environment, over every caller environment
\* ------------------------------------------------------------------------
InitEnv == environ \in Environs /\ InitRest

NextEnv ==
  \/ BuildEnv
  \/ Popen
  \/ PopenFails

SpecEnv == InitEnv /\ [][NextEnv]_vars

\* ------------------------------------------------------------------------
\* The forwarders on their own, over a larger set of stream contents
\* ------------------------------------------------------------------------
MaxLen == 3

Alphabet == {"{", "}", "[", "]", "1", "x", DQ, SP, LF, xFF}

RECURSIVE SeqsUpTo(_)
SeqsUpTo(n) ==
  IF n = 0 THEN {<<>>}
  ELSE LET S == SeqsUpTo(n - 1)
       IN S \cup {Append(s, a) : s \in S, a \in Alphabet}

\* the severity prefixes as the specification lists them
SeverityPrefixes ==
  { <<"i", "n", "f", "o", ":">>, <<"w", "a", "r", "n", ":">>,
    <<"e", "r", "r", "o", "r", ":">>, <<"d", "b", "u", "g", ":">>,
    <<"f", "a", "i", "l", ":">>, <<"c", "r", "i", "t", ":">> }

Info == <<"i", "n", "f", "o", ":">>
PingMessage ==
  <<"{", DQ, "i", "d", DQ, ":", "1", ",", DQ, "m", "e", "t", "h", "o", "d", DQ,
    ":", DQ, "p", "i", "n", "g", DQ, "}">>
ServerStarted ==
  Info \o <<SP, "s", "e", "r", "v", "e", "r", SP, "s", "t", "a", "r", "t", "e", "d">>
FreeText ==
  <<"u", "n", "e", "x", "p", "e", "c", "t", "e", "d", SP, "f", "r", "e", "e", SP,
    "t", "e", "x", "t">>

Tails == {<<>>, <<SP, "x">>, <<"{", "}">>, <<SP>>, <<"1">>}
Leads == {<<>>, <<SP>>, <<xFF>>, <<xC2, xA0>>, <<"x">>, <<"{">>}

SampleTexts ==
  {ld \o p \o tl : ld \in Leads, p \in SeverityPrefixes, tl \in Tails}
    \cup {PingMessage, ServerStarted, FreeText,
          <<SP>> \o PingMessage \o <<SP>>,
          <<xC2, xA0>>, <<xC2, xA0, SP>>, <<xC2, xA0>> \o PingMessage,
          <<TAB, CR>>, <<FF>>, <<"t", "r", "u", "e">>, <<"n", "u", "l", "l">>,
          <<"-", "1", ".", "5", "e", "3">>, <<"N", "a", "N">>,
          <<"[", "1", ",", SP, DQ, BSL, "n", DQ, "]">>,
          <<"[", "1", ",", "]">>, <<"{", DQ, "x", DQ, "}">>}

\* what a stream may hold: short byte sequences, and the sample texts with
\* and without a line terminator
StreamContents ==
  SeqsUpTo(MaxLen) \cup SampleTexts \cup {txt \o <<LF>> : txt \in SampleTexts}

\* main() is in process.wait(), both threads are started, one stream holds
\* the bytes c and both are at end-of-stream behind them
InitStreams(contents) ==
  /\ pc = "wait"
  /\ environ = CallerEnviron
  /\ env = [CallerEnviron EXCEPT ![LogLevelKey] = "None", ![ModeKey] = "Production"]
  /\ childEnv = env
  /\ closed = [d \in Dests |-> FALSE]
  /\ child = "running"
  /\ childStatus = NoStatus
  /\ returncode = 0
  /\ progStatus = NoStatus
  /\ spawnAttempts = 1
  /\ \E c \in contents, s \in Sources :
       /\ source = [r \in Sources |-> IF r = s THEN c ELSE <<>>]
       /\ sent = [r \in Sources |-> IF r = s THEN c ELSE <<>>]
  /\ eof = [s \in Sources |-> TRUE]
  /\ wbuf = [d \in Dests |-> <<>>]
  /\ delivered = [d \in Dests |-> <<>>]
  /\ broken = [d \in Dests |-> FALSE]
  /\ args = [t \in Threads |->
               IF t = "stdin_thread"
               THEN [input_stream |-> "sys.stdin", output_stream |-> "process.stdin",
                     should_filter |-> FALSE]
               ELSE [input_stream |-> "process.stdout", output_stream |-> "sys.stdout",
                     should_filter |-> TRUE]]
  /\ fpc = [t \in Threads |-> "readline"]
  /\ line = [t \in Threads |-> <<>>]
  /\ line_str = [t \in Threads |-> <<>>]
  /\ readLog = [t \in Threads |-> <<>>]
  /\ writeLog = [t \in Threads |-> <<>>]
  /\ verdicts = [t \in Threads |-> <<>>]
  /\ nCallerWrites = 0
  /\ nChildWrites = 0
  /\ nErrWrites = 0

InitLines == InitStreams(StreamContents)

NextLines ==
  \E t \in Threads :
    \/ ReadLine(t)
    \/ ReadEof(t)
    \/ Filter(t)
    \/ Write(t)
    \/ Flush(t)

SpecLines == InitLines /\ [][NextLines]_vars

\* the same over fewer contents, the forwarder threads kept being scheduled
EosContents ==
  SeqsUpTo(1) \cup ChildChunks \cup CallerChunks
    \cup {<<"x", LF, "x">>, <<LF, LF>>, LogLine \o JsonLine \o Unterminated}

InitEos == InitStreams(EosContents)

SpecLinesFair ==
  /\ InitEos
  /\ [][NextLines]_vars
  /\ \A t \in Threads :
       WF_vars(forward_stream(t))

\* ------------------------------------------------------------------------
\* Vocabulary of the properties
\* ------------------------------------------------------------------------
IsPrefix(a, b) == Len(a) <= Len(b) /\ SubSeq(b, 1, Len(a)) = a

RECURSIVE Flatten(_)
Flatten(ls) == IF ls = <<>> THEN <<>> ELSE Head(ls) \o Flatten(Tail(ls))

\* a is b with some elements removed
RECURSIVE IsSubseq(_, _)
IsSubseq(a, b) ==
  IF a = <<>> THEN TRUE
  ELSE IF b = <<>> THEN FALSE
  ELSE IF Head(a) = Head(b) THEN IsSubseq(Tail(a), Tail(b))
  ELSE IsSubseq(a, Tail(b))

\* the lines a byte sequence consists of, the terminator kept with its line
RECURSIVE SplitLines(_)
SplitLines(b) ==
  IF b = <<>> THEN <<>>
  ELSE LET n == FirstLF(b, 1)
           k == IF n # 0 THEN n ELSE Len(b)
       IN <<SubSeq(b, 1, k)>> \o SplitLines(SubSeq(b, k + 1, Len(b)))

\* the Line Classifier accepts the line (given as bytes)
Passes(l) == filter_logs(decode(l))

HasSeverityPrefix(str) ==
  \E p \in SeverityPrefixes :
    Len(p) <= Len(str) /\ SubSeq(str, 1, Len(p)) = p

Blank == {SP, TAB, LF, CR, FF, NBSP}
AllWhitespace(str) == \A i \in 1..Len(str) : str[i] \in Blank

\* the line without its record separator
Body(str) ==
  IF str # <<>> /\ str[Len(str)] = LF THEN SubSeq(str, 1, Len(str) - 1) ELSE str

\* the text the classifier got at its i-th call in thread t
Classified(t, i) == decode(readLog[t][i])

\* the lines of thread t the classifier accepted, in order
KeptFrom(t, i) ==
  LET RECURSIVE K(_)
      K(j) == IF j > Len(verdicts[t]) THEN <<>>
              ELSE IF verdicts[t][j] THEN <<readLog[t][j]>> \o K(j + 1)
              ELSE K(j + 1)
  IN K(i)

Accepted(t) == Cardinality({j \in 1..Len(verdicts[t]) : verdicts[t][j]})

\* ------------------------------------------------------------------------
\* C1: for every way the child terminates (exit code or signal) the
\* program's final exit status equals the child's exit status exactly, and
\* it is produced only after the child has terminated.
\* ------------------------------------------------------------------------
C1_ExitStatusIsChildStatus ==
  (progStatus # NoStatus /\ child # "none") =>
    (child = "terminated" /\ progStatus = childStatus)

C3_IdentityForwarding ==
  /\ verdicts["stdin_thread"] = <<>>
  /\ fpc["stdin_thread"] = "done" =>
       delivered["process.stdin"] = sent["sys.stdin"]

C3_Witness ==
  /\ fpc["stdin_thread"] = "done"
  /\ sent["sys.stdin"] = <<LF>> \o LogLine \o Unterminated
  /\ delivered["process.stdin"] = <<LF>> \o LogLine \o Unterminated

\* ------------------------------------------------------------------------
\* C4: every line the child wrote to its standard output before terminating
\* and that the classifier accepts has been written to the caller's standard
\* output by the time the program exits, under every interleaving.
\* ------------------------------------------------------------------------
C4_AllOutputRelayedAtExit ==
  (pc = "exited" /\ child = "terminated") =>
    delivered["sys.stdout"] =
      Flatten(SelectSeq(SplitLines(sent["process.stdout"]), Passes))

\* ------------------------------------------------------------------------
\* C5: for a line that parses as a complete JSON value the classifier
\* returns true, whatever its prefix or surrounding whitespace.
\* ------------------------------------------------------------------------
C5_JsonPasses ==
  \A t \in Threads : \A i \in 1..Len(verdicts[t]) :
    json_loads(Classified(t, i)) => verdicts[t][i]

C5_Witness ==
  /\ readLog["stdout_thread"] = << <<SP>> \o PingMessage \o <<SP, LF>> >>
  /\ verdicts["stdout_thread"] = <<TRUE>>
  /\ delivered["sys.stdout"] = <<SP>> \o PingMessage \o <<SP, LF>>

\* ------------------------------------------------------------------------
\* C6: for a line that starts with a severity prefix (info:, warn:, error:,
\* dbug:, fail:, crit:) and does not parse as JSON the classifier returns
\* false, and the filtering forwarder writes nothing for that line.
\* ------------------------------------------------------------------------
C6_LogLineDropped ==
  \A t \in Threads : \A i \in 1..Len(verdicts[t]) :
    (HasSeverityPrefix(Classified(t, i)) /\ ~json_loads(Classified(t, i))) =>
      /\ ~verdicts[t][i]
      /\ IsPrefix(writeLog[t], KeptFrom(t, 1))
      /\ delivered[args[t].output_stream] \o wbuf[args[t].output_stream]
           = Flatten(writeLog[t])

C6_Witness ==
  /\ readLog["stdout_thread"] = << ServerStarted \o <<LF>> >>
  /\ verdicts["stdout_thread"] = <<FALSE>>
  /\ fpc["stdout_thread"] = "done"
  /\ delivered["sys.stdout"] = <<>>

\* ------------------------------------------------------------------------
\* C7 as stated: for any non-empty line that neither parses as JSON nor
\* starts with a severity prefix the classifier returns true.
\* ------------------------------------------------------------------------
C7_NonEmptyPasses ==
  \A t \in Threads : \A i \in 1..Len(verdicts[t]) :
    (/\ Body(Classified(t, i)) # <<>>
     /\ ~json_loads(Classified(t, i))
     /\ ~HasSeverityPrefix(Classified(t, i))) => verdicts[t][i]

\* C7 amended: for any line that is non-empty after trimming whitespace and
\* that neither parses as JSON nor starts with a severity prefix the
\* classifier returns true.
C7_NonBlankPasses ==
  \A t \in Threads : \A i \in 1..Len(verdicts[t]) :
    (/\ ~AllWhitespace(Classified(t, i))
     /\ ~json_loads(Classified(t, i))
     /\ ~HasSeverityPrefix(Classified(t, i))) => verdicts[t][i]

C7_Witness ==
  /\ readLog["stdout_thread"] = << FreeText \o <<LF>> >>
  /\ verdicts["stdout_thread"] = <<TRUE>>
  /\ delivered["sys.stdout"] = FreeText \o <<LF>>

\* ------------------------------------------------------------------------
\* C8: for an empty or all-whitespace line the classifier returns false, so
\* the filtering forwarder drops it.
\* ------------------------------------------------------------------------
C8_BlankDropped ==
  \A t \in Threads : \A i \in 1..Len(verdicts[t]) :
    AllWhitespace(Classified(t, i)) =>
      /\ ~verdicts[t][i]
      /\ Len(writeLog[t]) = Accepted(t) - (IF fpc[t] = "write" THEN 1 ELSE 0)

C8_Witness ==
  /\ readLog["stdout_thread"] = << <<xC2, xA0, SP, LF>> >>
  /\ verdicts["stdout_thread"] = <<FALSE>>
  /\ fpc["stdout_thread"] = "done"
  /\ delivered["sys.stdout"] = <<>>

\* ------------------------------------------------------------------------
\* C9: every byte on the caller's standard output was read from the child's
\* standard output: nothing from the child's standard error, from the
\* caller's standard input or made up by the program is written there.
\* ------------------------------------------------------------------------
C9_StdoutOnlyFromChildStdout ==
  /\ IsSubseq(delivered["sys.stdout"] \o wbuf["sys.stdout"], sent["process.stdout"])
  /\ IsSubseq(Flatten(readLog["stdout_thread"]), sent["process.stdout"])

C9_Witness ==
  /\ nErrWrites = 1
  /\ sent["sys.stdin"] = LogLine
  /\ delivered["process.stdin"] = LogLine
  /\ sent["process.stdout"] = JsonLine
  /\ delivered["sys.stdout"] = JsonLine

\* ------------------------------------------------------------------------
\* C10: if the child cannot be started the program terminates with a
\* non-zero status, makes no second start attempt, starts neither forwarder
\* and writes nothing to the caller's standard output.
\* ------------------------------------------------------------------------
C10_SpawnFailureIsFatal ==
  /\ spawnAttempts <= 1
  /\ (spawnAttempts = 1 /\ child = "none") =>
       /\ pc = "exited"
       /\ progStatus.kind = "exit" /\ progStatus.n # 0
       /\ \A t \in Threads : fpc[t] = "unstarted"
       /\ delivered["sys.stdout"] = <<>> /\ wbuf["sys.stdout"] = <<>>

C10_Witness ==
  /\ spawnAttempts = 1
  /\ child = "none"
  /\ pc = "exited"
  /\ progStatus = [n |-> 1, kind |-> "exit"]

\* ------------------------------------------------------------------------
\* C11: once the child has terminated the program eventually exits, even
\* when a forwarder is still blocked waiting for a line (the caller's input
\* open and idle): the forwarders never keep the program alive.
\* ------------------------------------------------------------------------
C11_ExitsAfterChildTerminates == (child = "terminated") ~> (pc = "exited")

C11_Witness ==
  /\ pc = "exited"
  /\ child = "terminated"
  /\ fpc["stdin_thread"] = "readline"
  /\ ~eof["sys.stdin"]
  /\ source["sys.stdin"] = <<>>

\* ------------------------------------------------------------------------
\* C12: every line a forwarder writes is flushed before the forwarder reads
\* the next line (nothing stays buffered across a read), and a line the
\* classifier rejects causes neither a write nor a flush.
\* ------------------------------------------------------------------------
NothingBuffered ==
  \A t \in Threads :
    fpc[t] \in {"readline", "filter", "write", "done"} =>
      wbuf[args[t].output_stream] = <<>>

RejectedLineUntouched ==
  \A t \in Threads :
    (/\ fpc[t] = "filter" /\ fpc'[t] # "filter"
     /\ ~verdicts'[t][Len(verdicts'[t])]) =>
      /\ fpc'[t] = "readline"
      /\ writeLog'[t] = writeLog[t]
      /\ wbuf' = wbuf
      /\ delivered' = delivered

C12_FlushedBeforeNextRead == []NothingBuffered /\ [][RejectedLineUntouched]_vars

C12_Witness ==
  /\ readLog["stdout_thread"] = <<LogLine, RawLine>>
  /\ verdicts["stdout_thread"] = <<FALSE, TRUE>>
  /\ fpc["stdout_thread"] = "readline"
  /\ wbuf["sys.stdout"] = <<>>
  /\ delivered["sys.stdout"] = RawLine

\* ------------------------------------------------------------------------
\* C13: the two forwarders share no mutable state: each works on its own
\* stream pair, what is delivered in a direction depends on that direction's
\* source alone, and no step of one forwarder changes the source, the
\* destination or the progress of the other.
\* ------------------------------------------------------------------------
OtherThread(t) == CHOOSE o \in Threads : o # t

OwnDirectionOnly ==
  /\ IsPrefix(delivered["process.stdin"] \o wbuf["process.stdin"], sent["sys.stdin"])
  /\ IsPrefix(delivered["sys.stdout"] \o wbuf["sys.stdout"],
              Flatten(SelectSeq(SplitLines(sent["process.stdout"]), Passes)))
  /\ \A t \in Threads :
       (fpc[t] # "unstarted" /\ fpc[OtherThread(t)] # "unstarted") =>
         /\ args[t].input_stream # args[OtherThread(t)].input_stream
         /\ args[t].output_stream # args[OtherThread(t)].output_stream

StepLeavesOtherAlone ==
  \A t \in Threads :
    (fpc[t] # "unstarted" /\ fpc'[t] # fpc[t]) =>
      LET o == OtherThread(t)
      IN /\ fpc'[o] = fpc[o]
         /\ line'[o] = line[o] /\ line_str'[o] = line_str[o]
         /\ readLog'[o] = readLog[o] /\ writeLog'[o] = writeLog[o]
         /\ verdicts'[o] = verdicts[o]
         /\ fpc[o] # "unstarted" =>
              /\ source'[args[o].input_stream] = source[args[o].input_stream]
              /\ wbuf'[args[o].output_stream] = wbuf[args[o].output_stream]
              /\ delivered'[args[o].output_stream] = delivered[args[o].output_stream]

C13_DisjointForwarders == []OwnDirectionOnly /\ [][StepLeavesOtherAlone]_vars

C13_Witness ==
  /\ fpc["stdin_thread"] = "flush"
  /\ fpc["stdout_thread"] = "flush"
  /\ wbuf["process.stdin"] = LogLine
  /\ wbuf["sys.stdout"] = JsonLine

\* ------------------------------------------------------------------------
\* C14: the environment given to the child is the caller's environment with
\* exactly two keys overridden (logging level 'None', execution mode
\* 'Production'); every other key keeps its value, and the program's own
\* environment is left unchanged.
\* ------------------------------------------------------------------------
Overridden(e) ==
  [k \in EnvKeys |->
     IF k = "Logging__Console__LogLevel__Default" THEN "None"
     ELSE IF k = "DOTNET_ENVIRONMENT" THEN "Production"
     ELSE e[k]]

C14_ChildEnvironment ==
  /\ [](child # "none" => childEnv = Overridden(environ))
  /\ [][environ' = environ]_vars

C14_Witness ==
  /\ child = "running"
  /\ environ = [k \in EnvKeys |-> "Debug"]
  /\ childEnv["PATH"] = "Debug"
  /\ childEnv["DOTNET_ENVIRONMENT"] = "Production"

\* ------------------------------------------------------------------------
\* C15: a forwarder terminates when its source returns end-of-stream: with
\* the source at end-of-stream and the destination accepting writes it
\* eventually stops, and after it has observed end-of-stream it does no
\* further read, write or flush (it stays stopped with nothing buffered).
\* ------------------------------------------------------------------------
C15_ForwarderTerminates ==
  \A t \in Threads :
    /\ <>(fpc[t] = "done")
    /\ [](fpc[t] = "done" => [](fpc[t] = "done" /\ wbuf[args[t].output_stream] = <<>>))

C15_Witness ==
  /\ fpc["stdin_thread"] = "done"
  /\ fpc["stdout_thread"] = "done"
  /\ readLog["stdin_thread"] = << <<"x", LF>>, <<"x">> >>
  /\ delivered["process.stdin"] = <<"x", LF, "x">>

C17_StartedBeforeWait ==
  /\ (pc \in {"wait", "exit"} \/ (pc = "exited" /\ child # "none")) =>
       \A t \in Threads : fpc[t] # "unstarted"
  /\ \A t \in Threads :
       fpc[t] # "unstarted" => (child # "none" /\ spawnAttempts = 1)

C17_Witness ==
  /\ pc = "wait"
  /\ child = "running"
  /\ \A t \in Threads : fpc[t] = "readline"
  /\ nCallerWrites = 0 /\ nChildWrites = 0

\* ------------------------------------------------------------------------
\* C18: end-of-stream on the caller's input does not by itself end the
\* program: the input forwarder stops without closing the child's input,
\* the output forwarder keeps relaying, and the program exits only after
\* the child has terminated.
\* ------------------------------------------------------------------------
C18_InputEofDoesNotEndProgram ==
  /\ \A d \in Dests : ~closed[d]
  /\ (pc \in {"exit", "exited"} /\ child # "none") => child = "terminated"
  /\ (fpc["stdin_thread"] = "done" /\ child = "running") => pc \in {"start_stdout", "wait"}
  /\ (/\ fpc["stdin_thread"] = "done"
      /\ pc # "exited"
      /\ fpc["stdout_thread"] = "readline"
      /\ FirstLF(source["process.stdout"], 1) # 0) =>
       ENABLED ReadLine("stdout_thread")

C18_Witness ==
  /\ fpc["stdin_thread"] = "done"
  /\ child = "running"
  /\ pc = "wait"
  /\ ~closed["process.stdin"]
  /\ readLog["stdout_thread"] = <<JsonLine>>
  /\ delivered["sys.stdout"] = JsonLine

\* ------------------------------------------------------------------------
\* C19: the classifier's decision does not depend on the trailing record
\* separator: a line classified with its terminator attached gets the same
\* result as the line with the terminator removed.
\* ------------------------------------------------------------------------
C19_TerminatorIrrelevant ==
  \A t \in Threads : \A i \in 1..Len(verdicts[t]) :
    /\ verdicts[t][i] = filter_logs(Body(Classified(t, i)))
    /\ verdicts[t][i] = filter_logs(Body(Classified(t, i)) \o <<LF>>)

C19_Witness ==
  /\ readLog["stdout_thread"] = << <<"{", "}", LF>> >>
  /\ verdicts["stdout_thread"] = <<TRUE>>
  /\ filter_logs(<<"{", "}">>)

====
